---- MODULE Spec2Model ----
(***************************************************************************)
(* Exercise analysis engine of the AI fitness trainer: the repetition      *)
(* counting state machine (exercise_detector.py), the form feedback table  *)
(* (feedback_system.py), the joint angle aggregation and the frame loop    *)
(* (main.py) and the angle calculation (angle_utils.py).                    *)
(*                                                                         *)
(* Angles are held in half degrees, so that the mean of two whole-degree   *)
(* angles is exact: Deg(70) is the code's 70.  Points are held in half     *)
(* pixels, so that the midpoint of two pixels is exact: Px(3, 4) is the    *)
(* pixel (3, 4).                                                           *)
(***************************************************************************)
EXTENDS Integers, Sequences, FiniteSets, TLC

VARIABLES
    rep_counters,       \* ExerciseDetector.rep_counters
    last_phase,         \* ExerciseDetector.last_phase
    current_exercise,   \* ExerciseDetector.current_exercise
    status,             \* the ExerciseStatus the last update returned
    call,               \* the last call made: [op, arg]
    twin,               \* a second detector, fed angle maps that agree on the characteristic angle
    trace,              \* the characteristic angles passed to update so far
    pc,                 \* main: where the loop stands ("frame", "key", "done")
    frame,              \* main: the locals of the current iteration and what it logged
    feedback,           \* main: the feedback string of the current iteration
    last_logged_reps,   \* main: last_logged_reps
    returned            \* per exercise, the count the previous update for it returned

vars ==
    <<rep_counters, last_phase, current_exercise, status, call, twin, trace,
      pc, frame, feedback, last_logged_reps, returned>>

loopVars == <<pc, frame, feedback, last_logged_reps, returned>>

\* ------------------------------------------------------------------ bounds

\* Updates that would push a counter past MaxReps are not taken.
MaxReps == 2

\* The longest sequence of angles fed to one exercise in SpecSeq.
MaxLen == 5

\* Frames of the loop that would push a counter past MaxLoopReps are not taken.
MaxLoopReps == 1

\* ------------------------------------------------------------- angle maps

Deg(n) == 2 * n

\* dict.get(key, default)
Get(m, key, default) == IF key \in DOMAIN m THEN m[key] ELSE default

EmptyMap == [k \in {} |-> 0]

\* All maps from a subset of keys to the given values.
MapsOver(keys, values) == UNION {[d -> values] : d \in SUBSET keys}

\* --------------------------------------------------------------- detector

Exercises == {"Squat", "Push-up", "Lunge"}

NoStatus == [exercise |-> "none", reps |-> 0, phase |-> "none"]

\* ExerciseDetector.__init__
NewDetector ==
    [rep_counters |-> [e \in Exercises |-> 0],
     last_phase |-> [e \in Exercises |-> "up"],
     current_exercise |-> "Squat",
     status |-> NoStatus]

\* ExerciseDetector.set_exercise, with every name accepted
set_exercise_unchecked(d, exercise_name) ==
    [d EXCEPT !.current_exercise = exercise_name]

\* ExerciseDetector.set_exercise that also starts the exercise afresh
set_exercise_reset(d, exercise_name) ==
    IF exercise_name \in DOMAIN d.rep_counters
    THEN [d EXCEPT !.current_exercise = exercise_name,
                   !.rep_counters[exercise_name] = 0,
                   !.last_phase[exercise_name] = "up"]
    ELSE d

\* ExerciseDetector.set_exercise
set_exercise(d, exercise_name) ==
    IF exercise_name \in DOMAIN d.rep_counters
    THEN [d EXCEPT !.current_exercise = exercise_name]
    ELSE d

\* The if/elif of one exercise's branch without the test of the stored phase.
threshold_step_no_debounce(stored, angle, down) ==
    IF angle < down
    THEN [phase |-> "down", counted |-> 0]
    ELSE IF angle > Deg(160)
         THEN [phase |-> "up", counted |-> 1]
         ELSE [phase |-> stored, counted |-> 0]

\* The if/elif of one exercise's branch: the new phase and whether a rep is counted.
threshold_step(stored, angle, down) ==
    IF angle < down
    THEN [phase |-> "down", counted |-> 0]
    ELSE IF angle > Deg(160) /\ stored = "down"
         THEN [phase |-> "up", counted |-> 1]
         ELSE [phase |-> stored, counted |-> 0]

\* The branch update takes for the selected exercise, reading one key for all three.
exercise_step_one_key(exercise, stored, angles) ==
    IF exercise = "Squat"
    THEN threshold_step(stored, Get(angles, "knee", Deg(180)), Deg(70))
    ELSE IF exercise = "Push-up"
    THEN threshold_step(stored, Get(angles, "knee", Deg(180)), Deg(70))
    ELSE IF exercise = "Lunge"
    THEN threshold_step(stored, Get(angles, "knee", Deg(180)), Deg(80))
    ELSE [phase |-> stored, counted |-> 0]

\* The branch update takes for the selected exercise.
exercise_step(exercise, stored, angles) ==
    IF exercise = "Squat"
    THEN threshold_step(stored, Get(angles, "knee", Deg(180)), Deg(70))
    ELSE IF exercise = "Push-up"
    THEN threshold_step(stored, Get(angles, "elbow", Deg(180)), Deg(70))
    ELSE IF exercise = "Lunge"
    THEN threshold_step(stored, Get(angles, "front_knee", Deg(180)), Deg(80))
    ELSE [phase |-> stored, counted |-> 0]

\* ExerciseDetector.update that stores the new phase for every exercise
update_all_phases(d, angles) ==
    LET exercise == d.current_exercise
        step == exercise_step(exercise, d.last_phase[exercise], angles)
        counters == [d.rep_counters EXCEPT ![exercise] = @ + step.counted]
    IN  [rep_counters |-> counters,
         last_phase |-> [e \in Exercises |-> step.phase],
         current_exercise |-> exercise,
         status |-> [exercise |-> exercise, reps |-> counters[exercise],
                     phase |-> step.phase]]

\* ExerciseDetector.update
update(d, angles) ==
    LET exercise == d.current_exercise
        step == exercise_step(exercise, d.last_phase[exercise], angles)
        counters == [d.rep_counters EXCEPT ![exercise] = @ + step.counted]
    IN  [rep_counters |-> counters,
         last_phase |-> [d.last_phase EXCEPT ![exercise] = step.phase],
         current_exercise |-> exercise,
         status |-> [exercise |-> exercise, reps |-> counters[exercise],
                     phase |-> step.phase]]

\* The detector object held in the variables.
detector ==
    [rep_counters |-> rep_counters, last_phase |-> last_phase,
     current_exercise |-> current_exercise, status |-> status]

\* The variables take the fields of detector object d.
Store(d) ==
    /\ rep_counters' = d.rep_counters
    /\ last_phase' = d.last_phase
    /\ current_exercise' = d.current_exercise
    /\ status' = d.status

WithinBound(d) == \A e \in Exercises : d.rep_counters[e] <= MaxReps

WithinLoopBound(d) == \A e \in Exercises : d.rep_counters[e] <= MaxLoopReps

\* ------------------------------------------------------------------ geometry

\* A pixel, in half pixels.
Px(x, y) == <<2 * x, 2 * y>>

\* 1000 * cos((d - 1/2) degrees) for d = 1..180, cut to an integer.
CosHalf ==
    <<
       999, 999, 999, 998, 996, 995, 993, 991, 989, 986, 983, 979,
       976, 972, 968, 963, 958, 953, 948, 942, 936, 930, 923, 917,
       909, 902, 894, 887, 878, 870, 861, 852, 843, 833, 824, 814,
       803, 793, 782, 771, 760, 748, 737, 725, 713, 700, 688, 675,
       662, 649, 636, 622, 608, 594, 580, 566, 551, 537, 522, 507,
       492, 477, 461, 446, 430, 414, 398, 382, 366, 350, 333, 317,
       300, 284, 267, 250, 233, 216, 199, 182, 165, 147, 130, 113,
       95, 78, 61, 43, 26, 8, -8, -26, -43, -61, -78, -95,
       -113, -130, -147, -165, -182, -199, -216, -233, -250, -267, -284, -300,
       -317, -333, -350, -366, -382, -398, -414, -430, -446, -461, -477, -492,
       -507, -522, -537, -551, -566, -580, -594, -608, -622, -636, -649, -662,
       -675, -688, -700, -713, -725, -737, -748, -760, -771, -782, -793, -803,
       -814, -824, -833, -843, -852, -861, -870, -878, -887, -894, -902, -909,
       -917, -923, -930, -936, -942, -948, -953, -958, -963, -968, -972, -976,
       -979, -983, -986, -989, -991, -993, -995, -996, -998, -999, -999, -999
    >>

Dot(u, v) == u[1] * v[1] + u[2] * v[2]

\* Whether the cosine dot / sqrt(n2) is below h / 1000.
CosBelow(dot, n2, h) ==
    IF h > 0
    THEN dot < 0 \/ dot * dot * 1000000 < h * h * n2
    ELSE dot < 0 /\ dot * dot * 1000000 > h * h * n2

\* calculate_angle: the angle at point2, to the nearest degree.  The arc cosine of
\* the clipped cosine is the number of half-degree marks whose cosine lies above it.
calculate_angle(point1, point2, point3) ==
    LET ba == <<point1[1] - point2[1], point1[2] - point2[2]>>
        bc == <<point3[1] - point2[1], point3[2] - point2[2]>>
        n2 == Dot(ba, ba) * Dot(bc, bc)
    IN  IF Dot(ba, ba) = 0 \/ Dot(bc, bc) = 0
        THEN 0
        ELSE Deg(Cardinality({d \in 1..180 : CosBelow(Dot(ba, bc), n2, CosHalf[d])}))

\* midpoint; the sum of two half-pixel coordinates is even.
midpoint(p1, p2) == <<(p1[1] + p2[1]) \div 2, (p1[2] + p2[2]) \div 2>>

\* compute_angles' front knee with the left knee taken when the two are level
front_knee_left_when_level(landmarks) ==
    IF landmarks.left_knee[2] >= landmarks.right_knee[2]
    THEN landmarks.left_knee
    ELSE landmarks.right_knee

\* compute_angles: the front knee
front_knee(landmarks) ==
    IF landmarks.left_knee[2] > landmarks.right_knee[2]
    THEN landmarks.left_knee
    ELSE landmarks.right_knee

\* compute_angles: the front ankle
front_ankle(landmarks) ==
    IF front_knee(landmarks) = landmarks.left_knee
    THEN landmarks.left_ankle
    ELSE landmarks.right_ankle

\* compute_angles: the front hip
front_hip(landmarks) ==
    IF front_knee(landmarks) = landmarks.left_knee
    THEN landmarks.left_hip
    ELSE landmarks.right_hip

\* compute_angles
compute_angles(landmarks) ==
    LET l == landmarks
        elbow_left == calculate_angle(l.left_shoulder, l.left_elbow, l.left_wrist)
        elbow_right == calculate_angle(l.right_shoulder, l.right_elbow, l.right_wrist)
        knee_left == calculate_angle(l.left_hip, l.left_knee, l.left_ankle)
        knee_right == calculate_angle(l.right_hip, l.right_knee, l.right_ankle)
        hip_left == calculate_angle(l.left_shoulder, l.left_hip, l.left_knee)
        hip_right == calculate_angle(l.right_shoulder, l.right_hip, l.right_knee)
        shoulder_left == calculate_angle(l.left_elbow, l.left_shoulder, l.left_hip)
        shoulder_right == calculate_angle(l.right_elbow, l.right_shoulder, l.right_hip)
        shoulder_mid == midpoint(l.left_shoulder, l.right_shoulder)
        hip_mid == midpoint(l.left_hip, l.right_hip)
        knee_mid == midpoint(l.left_knee, l.right_knee)
        ankle_mid == midpoint(l.left_ankle, l.right_ankle)
        knee == (knee_left + knee_right) \div 2
    IN  [elbow |-> (elbow_left + elbow_right) \div 2,
         knee |-> knee,
         hip |-> (hip_left + hip_right) \div 2,
         shoulder |-> (shoulder_left + shoulder_right) \div 2,
         back |-> calculate_angle(shoulder_mid, hip_mid, knee_mid),
         body_line |-> calculate_angle(shoulder_mid, hip_mid, ankle_mid),
         front_knee |-> calculate_angle(front_hip(l), front_knee(l), front_ankle(l)),
         phase_down_score |-> IF knee < Deg(120) THEN 1 ELSE 0]

\* ------------------------------------------------------------------ feedback

\* get_feedback with the squat's depth rule tried before its back rule
get_feedback_depth_first(exercise, angle_map, joints) ==
    IF exercise = "Squat"
    THEN IF Get(angle_map, "knee", Deg(180)) > Deg(90)
            /\ Get(angle_map, "phase_down_score", 0) > 0
         THEN "Go lower"
         ELSE IF Get(angle_map, "back", Deg(180)) < Deg(150)
              THEN "Keep your back straight"
              ELSE "Great squat form"
    ELSE "Select an exercise"

\* FeedbackSystem.get_feedback
get_feedback(exercise, angle_map, joints) ==
    IF exercise = "Squat"
    THEN LET back_angle == Get(angle_map, "back", Deg(180))
             knee_angle == Get(angle_map, "knee", Deg(180))
         IN  IF back_angle < Deg(150)
             THEN "Keep your back straight"
             ELSE IF knee_angle > Deg(90) /\ Get(angle_map, "phase_down_score", 0) > 0
                  THEN "Go lower"
                  ELSE "Great squat form"
    ELSE IF exercise = "Push-up"
    THEN LET elbow_angle == Get(angle_map, "elbow", Deg(180))
             body_angle == Get(angle_map, "body_line", Deg(180))
         IN  IF elbow_angle > Deg(160)
             THEN "Lower your body"
             ELSE IF body_angle < Deg(155)
                  THEN "Keep body straight"
                  ELSE "Great push-up form"
    ELSE IF exercise = "Lunge"
    THEN IF /\ "front_knee" \in DOMAIN joints
            /\ "front_toe" \in DOMAIN joints
            /\ joints.front_knee[1] > joints.front_toe[1]
         THEN "Don't push knee forward"
         ELSE "Great lunge form"
    ELSE "Select an exercise"

\* ------------------------------------------- the detector's two operations

AngleKeys == {"knee", "elbow", "front_knee"}

AngleValues == {Deg(60), Deg(75), Deg(170)}

AngleMaps == MapsOver(AngleKeys, AngleValues)

\* Names a caller may pass to set_exercise: the three exercises and one other.
ExerciseNames == Exercises \cup {"Plank"}

NoCall == [op |-> "none", arg |-> EmptyMap]

\* The locals of main before the first iteration, and of an iteration without a pose.
NoFrame ==
    [pose |-> FALSE, landmarks |-> EmptyMap, angles |-> EmptyMap,
     joints |-> EmptyMap, logged |-> <<>>]

Init ==
    /\ rep_counters = NewDetector.rep_counters
    /\ last_phase = NewDetector.last_phase
    /\ current_exercise = NewDetector.current_exercise
    /\ status = NewDetector.status
    /\ call = NoCall
    /\ twin = NewDetector
    /\ trace = <<>>
    /\ pc = "frame"
    /\ frame = NoFrame
    /\ feedback = ""
    /\ last_logged_reps = [e \in Exercises |-> 0]
    /\ returned = [e \in Exercises |-> 0]

SetExercise ==
    \E name \in ExerciseNames :
        /\ Store(set_exercise(detector, name))
        /\ call' = [op |-> "set_exercise", arg |-> name]
        /\ UNCHANGED <<twin, trace, loopVars>>

Update ==
    \E angles \in AngleMaps :
        LET d == update(detector, angles) IN
        /\ WithinBound(d)
        /\ Store(d)
        /\ call' = [op |-> "update", arg |-> angles]
        /\ UNCHANGED <<twin, trace, loopVars>>

Next == SetExercise \/ Update

Spec == Init /\ [][Next]_vars

\* ------------------------------------------------ two detectors side by side

\* Whether two angle maps agree on one key: both lack it, or both hold the same value.
AgreeOn(a, b, key) ==
    /\ (key \in DOMAIN a) = (key \in DOMAIN b)
    /\ key \in DOMAIN a => a[key] = b[key]

\* The key update reads for each exercise: its characteristic angle.
Characteristic(exercise) ==
    CASE exercise = "Squat" -> "knee"
      [] exercise = "Push-up" -> "elbow"
      [] exercise = "Lunge" -> "front_knee"

\* The angle maps the two detectors are fed.
TwinAngleMaps == MapsOver(AngleKeys, {Deg(60), Deg(170)})

TwinSetExercise ==
    \E name \in ExerciseNames :
        /\ Store(set_exercise(detector, name))
        /\ twin' = set_exercise(twin, name)
        /\ call' = [op |-> "set_exercise", arg |-> {}]
        /\ UNCHANGED <<trace, loopVars>>

\* Both detectors are updated, each with its own angle map; call.arg keeps the keys
\* on which the two maps differ.
TwinUpdate ==
    \E a \in TwinAngleMaps, b \in TwinAngleMaps :
        LET d == update(detector, a) IN
        /\ AgreeOn(a, b, Characteristic(current_exercise))
        /\ WithinBound(d)
        /\ Store(d)
        /\ twin' = update(twin, b)
        /\ call' = [op |-> "update", arg |-> {k \in AngleKeys : ~AgreeOn(a, b, k)}]
        /\ UNCHANGED <<trace, loopVars>>

NextTwin == TwinSetExercise \/ TwinUpdate

SpecTwin == Init /\ [][NextTwin]_vars

\* ------------------------------------------- one exercise, one angle sequence

SeqAngles == {Deg(60), Deg(70), Deg(75), Deg(120), Deg(160), Deg(180)}

\* The exercise is selected once, before the first update.
SeqSelect ==
    /\ call.op = "none"
    /\ \E name \in Exercises :
        /\ Store(set_exercise(detector, name))
        /\ call' = [op |-> "set_exercise", arg |-> EmptyMap]
        /\ UNCHANGED <<twin, trace, loopVars>>

\* update is called with a map holding the characteristic angle of the selected exercise.
SeqUpdate ==
    \E v \in SeqAngles :
        LET angles == (Characteristic(current_exercise) :> v)
            d == update(detector, angles)
        IN  /\ call.op # "none"
            /\ Len(trace) < MaxLen
            /\ WithinBound(d)
            /\ Store(d)
            /\ trace' = Append(trace, v)
            /\ call' = [op |-> "update", arg |-> angles]
            /\ UNCHANGED <<twin, loopVars>>

NextSeq == SeqSelect \/ SeqUpdate

SpecSeq == Init /\ [][NextSeq]_vars

\* ------------------------------------------------------------- the frame loop

\* One side of the body as the pose estimator may report it, in pixels (y grows downwards).
Standing ==
    [shoulder |-> Px(1, 0), elbow |-> Px(1, 1), wrist |-> Px(1, 2), hip |-> Px(1, 2),
     knee |-> Px(1, 3), ankle |-> Px(1, 4), foot_index |-> Px(2, 4)]

\* Standing with the foot turned back: the knee of Standing, another ankle and toe.
Splayed ==
    [shoulder |-> Px(1, 0), elbow |-> Px(1, 1), wrist |-> Px(1, 2), hip |-> Px(1, 2),
     knee |-> Px(1, 3), ankle |-> Px(0, 4), foot_index |-> Px(0, 4)]

\* The bottom of a squat: the knee bent to 53 degrees, level with a standing knee.
Squatting ==
    [shoulder |-> Px(0, 0), elbow |-> Px(0, 1), wrist |-> Px(0, 2), hip |-> Px(0, 2),
     knee |-> Px(2, 3), ankle |-> Px(0, 4), foot_index |-> Px(1, 4)]

\* The bottom of a push-up: the elbow bent to 53 degrees, the leg straight.
Pressing ==
    [shoulder |-> Px(1, 0), elbow |-> Px(3, 1), wrist |-> Px(1, 2), hip |-> Px(1, 2),
     knee |-> Px(1, 3), ankle |-> Px(1, 4), foot_index |-> Px(2, 4)]

\* The front leg of a lunge: the knee bent to 63 degrees and below a standing knee.
Lunging ==
    [shoulder |-> Px(1, 0), elbow |-> Px(1, 1), wrist |-> Px(1, 2), hip |-> Px(1, 2),
     knee |-> Px(2, 4), ankle |-> Px(1, 4), foot_index |-> Px(1, 4)]

Sides == {Standing, Splayed, Squatting, Pressing, Lunging}

\* PoseResult.landmarks_px: the 15 named landmarks.
Landmarks(left, right) ==
    [nose |-> Px(1, 0),
     left_shoulder |-> left.shoulder, right_shoulder |-> right.shoulder,
     left_elbow |-> left.elbow, right_elbow |-> right.elbow,
     left_wrist |-> left.wrist, right_wrist |-> right.wrist,
     left_hip |-> left.hip, right_hip |-> right.hip,
     left_knee |-> left.knee, right_knee |-> right.knee,
     left_ankle |-> left.ankle, right_ankle |-> right.ankle,
     left_foot_index |-> left.foot_index, right_foot_index |-> right.foot_index]

\* The landmark sets the pose estimator reports: both sides alike, or one side standing.
LandmarkSets ==
    {Landmarks(side, side) : side \in Sides}
        \cup {Landmarks(Standing, side) : side \in Sides}
        \cup {Landmarks(side, Standing) : side \in Sides}

\* The joint angles of every landmark set.
AnglesOf == [l \in LandmarkSets |-> compute_angles(l)]

\* WorkoutLogger.log: the row appended (its timestamp left out).
log(exercise_name, reps) == [exercise |-> exercise_name, reps |-> reps]

\* main: the joints handed to get_feedback
feedback_joints(landmarks) ==
    [front_knee |->
        IF landmarks.left_knee[2] > landmarks.right_knee[2]
        THEN landmarks.left_knee ELSE landmarks.right_knee,
     front_toe |->
        IF landmarks.left_knee[2] > landmarks.right_knee[2]
        THEN landmarks.left_foot_index ELSE landmarks.right_foot_index]

\* main: an iteration whose frame holds a pose, up to the drawing
PoseFrame ==
    /\ pc = "frame"
    /\ \E landmarks \in LandmarkSets :
        LET angles == AnglesOf[landmarks]
            d == update(detector, angles)
            joints == feedback_joints(landmarks)
            logs == d.status.reps > last_logged_reps[d.status.exercise]
        IN  /\ WithinLoopBound(d)
            /\ Store(d)
            /\ feedback' = get_feedback(d.status.exercise, angles, joints)
            /\ frame' = [pose |-> TRUE, landmarks |-> landmarks, angles |-> angles,
                         joints |-> joints,
                         logged |-> IF logs
                                    THEN <<log(d.status.exercise, d.status.reps)>>
                                    ELSE <<>>]
            /\ last_logged_reps' =
                  IF logs
                  THEN [last_logged_reps EXCEPT ![d.status.exercise] = d.status.reps]
                  ELSE last_logged_reps
            /\ returned' = [returned EXCEPT ![d.status.exercise] = d.status.reps]
            /\ pc' = "key"
            /\ UNCHANGED <<call, twin, trace>>

\* main: an iteration whose frame holds no pose, up to the drawing
NoPoseFrame ==
    LET d == update(detector, EmptyMap) IN
    /\ pc = "frame"
    /\ WithinLoopBound(d)
    /\ Store(d)
    /\ feedback' = "Pose not detected. Step into frame."
    /\ frame' = NoFrame
    /\ returned' = [returned EXCEPT ![d.status.exercise] = d.status.reps]
    /\ pc' = "key"
    /\ UNCHANGED <<call, twin, trace, last_logged_reps>>

\* main: camera.read() returns no frame and the loop ends
NoFrameRead ==
    /\ pc = "frame"
    /\ pc' = "done"
    /\ UNCHANGED <<rep_counters, last_phase, current_exercise, status, call, twin, trace,
                   frame, feedback, last_logged_reps, returned>>

Keys == {"1", "2", "3", "q", "none"}

\* main: the key read at the end of the iteration
KeyPress ==
    /\ pc = "key"
    /\ \E key \in Keys :
        /\ Store(IF key = "1" THEN set_exercise(detector, "Squat")
                 ELSE IF key = "2" THEN set_exercise(detector, "Push-up")
                 ELSE IF key = "3" THEN set_exercise(detector, "Lunge")
                 ELSE detector)
        /\ pc' = IF key = "q" THEN "done" ELSE "frame"
        /\ UNCHANGED <<call, twin, trace, frame, feedback, last_logged_reps, returned>>

NextMain == PoseFrame \/ NoPoseFrame \/ NoFrameRead \/ KeyPress

SpecMain == Init /\ [][NextMain]_vars

\* ------------------------------------------------- get_feedback on its own

FeedbackAngleMaps ==
    {b @@ k @@ p @@ e @@ l :
        b \in MapsOver({"back"}, {Deg(140), Deg(150), Deg(160)}),
        k \in MapsOver({"knee"}, {Deg(90), Deg(100)}),
        p \in MapsOver({"phase_down_score"}, {0, 1}),
        e \in MapsOver({"elbow"}, {Deg(150), Deg(170)}),
        l \in MapsOver({"body_line"}, {Deg(150), Deg(160)})}

FeedbackJoints ==
    {k @@ t :
        k \in MapsOver({"front_knee"}, {Px(1, 3), Px(2, 3)}),
        t \in MapsOver({"front_toe"}, {Px(1, 4), Px(2, 4)})}

\* The arguments of the get_feedback call are chosen.
FeedbackArguments ==
    /\ call.op = "none"
    /\ \E exercise \in ExerciseNames, angles \in FeedbackAngleMaps, joints \in FeedbackJoints :
        /\ call' = [op |-> "arguments",
                    arg |-> [exercise |-> exercise, angles |-> angles, joints |-> joints]]
        /\ feedback' = ""
        /\ UNCHANGED <<rep_counters, last_phase, current_exercise, status, twin, trace,
                       pc, frame, last_logged_reps, returned>>

\* get_feedback is called with them.
GetFeedback ==
    /\ call.op = "arguments"
    /\ feedback' = get_feedback(call.arg.exercise, call.arg.angles, call.arg.joints)
    /\ call' = [call EXCEPT !.op = "get_feedback"]
    /\ UNCHANGED <<rep_counters, last_phase, current_exercise, status, twin, trace,
                   pc, frame, last_logged_reps, returned>>

NextFeedback == FeedbackArguments \/ GetFeedback

SpecFeedback == Init /\ [][NextFeedback]_vars

\* ===================================================================== claims

\* The down threshold of each exercise, as the claim gives it.
ClaimDown(exercise) == IF exercise = "Lunge" THEN Deg(80) ELSE Deg(70)

\* The stored phase is "down" before the i-th update of sequence t: some earlier angle
\* went below the down threshold and no angle since then went above 160.
DownBefore(t, i, down) ==
    \E j \in 1..(i - 1) :
        /\ t[j] < down
        /\ \A k \in (j + 1)..(i - 1) : t[k] < down \/ ~(t[k] > Deg(160))

\* The completed down->up cycles of sequence t.
Cycles(t, down) ==
    Cardinality({i \in 1..Len(t) : ~(t[i] < down) /\ t[i] > Deg(160) /\ DownBefore(t, i, down)})

\* C1: the rep counter of the selected exercise equals the number of completed
\* down->up cycles of its characteristic angle; an update counts exactly when its
\* angle is above 160 while the stored phase is down; [180,60,180] gives one rep and
\* phase up, [180,60,120,60,180] gives one rep, and a sequence that never goes below
\* the down threshold gives none.
C1_RepsAreCompletedCycles ==
    /\ [](LET e == current_exercise
              r == rep_counters[e]
          IN  /\ r = Cycles(trace, ClaimDown(e))
              /\ \A o \in Exercises \ {e} : rep_counters[o] = 0
              /\ trace = <<Deg(180), Deg(60), Deg(180)>> => r = 1 /\ last_phase[e] = "up"
              /\ trace = <<Deg(180), Deg(60), Deg(120), Deg(60), Deg(180)>> => r = 1
              /\ (\A i \in 1..Len(trace) : trace[i] >= ClaimDown(e)) => r = 0)
    /\ [][call'.op = "update" =>
            LET e == current_exercise
                angle == call'.arg[Characteristic(e)]
            IN  rep_counters'[e] - rep_counters[e] =
                    IF angle > Deg(160) /\ last_phase[e] = "down" THEN 1 ELSE 0]_vars

C1_Witness ==
    /\ current_exercise = "Squat"
    /\ trace = <<Deg(180), Deg(60), Deg(120), Deg(60), Deg(180)>>
    /\ rep_counters["Squat"] = 1
    /\ last_phase["Squat"] = "up"

\* C2: an update with an angle map that lacks the characteristic angle of the selected
\* exercise leaves that exercise's phase unchanged and counts no repetition.
C2_MissingAngleIsNeutral ==
    [][(call'.op = "update" /\ Characteristic(current_exercise) \notin DOMAIN call'.arg)
          => /\ last_phase'[current_exercise] = last_phase[current_exercise]
             /\ rep_counters' = rep_counters]_vars

\* C3: update changes the counter and phase of the selected exercise only, and
\* set_exercise changes no counter and no phase.
C3_OnlySelectedChanges ==
    [][/\ call'.op = "update" =>
            \A e \in Exercises \ {current_exercise} :
                rep_counters'[e] = rep_counters[e] /\ last_phase'[e] = last_phase[e]
       /\ call'.op = "set_exercise" =>
            rep_counters' = rep_counters /\ last_phase' = last_phase]_vars

\* A deselected exercise keeps a counted rep and its "down" phase while another counts.
C3_Witness ==
    /\ call.op = "update"
    /\ current_exercise = "Lunge"
    /\ rep_counters["Lunge"] = 1
    /\ rep_counters["Squat"] = 1
    /\ last_phase["Squat"] = "down"

\* C5: every counter is a non-negative integer, and every step changes each counter
\* by 0 or by +1.
C5_CountersNeverDecrease ==
    /\ [](\A e \in Exercises : rep_counters[e] \in Nat)
    /\ [][\A e \in Exercises : rep_counters'[e] - rep_counters[e] \in {0, 1}]_vars

\* A counter that has counted is carried through a change of exercise.
C5_Witness ==
    /\ call.op = "set_exercise"
    /\ call.arg = "Push-up"
    /\ current_exercise = "Push-up"
    /\ rep_counters["Squat"] = MaxReps
    /\ rep_counters["Push-up"] = 1

\* C8: the selected exercise is always one of the three; update never changes it and
\* set_exercise with another name leaves it unchanged.
C8_SelectionStaysKnown ==
    /\ [](current_exercise \in {"Squat", "Push-up", "Lunge"})
    /\ [][/\ call'.op = "update" => current_exercise' = current_exercise
          /\ (call'.op = "set_exercise" /\ call'.arg \notin {"Squat", "Push-up", "Lunge"})
                => current_exercise' = current_exercise]_vars

C8_Witness ==
    /\ call.op = "set_exercise"
    /\ call.arg = "Plank"
    /\ current_exercise = "Lunge"

\* C9: two detectors in the same state, updated with angle maps that agree on the
\* characteristic angle of the selected exercise, end in the same state and return
\* the same status.
C9_OnlyCharacteristicAngleMatters ==
    /\ twin.rep_counters = rep_counters
    /\ twin.last_phase = last_phase
    /\ twin.current_exercise = current_exercise
    /\ twin.status = status

\* The two maps differed on both other keys, and the update counted a repetition.
C9_Witness ==
    /\ call.op = "update"
    /\ current_exercise = "Push-up"
    /\ call.arg = {"knee", "front_knee"}
    /\ status = [exercise |-> "Push-up", reps |-> 1, phase |-> "up"]
    /\ twin.status = status

\* The squat table of the claim: the back rule, then the depth rule, then praise.
SquatTable(angle_map) ==
    IF Get(angle_map, "back", Deg(180)) < Deg(150)
    THEN "Keep your back straight"
    ELSE IF Get(angle_map, "knee", Deg(180)) > Deg(90)
            /\ Get(angle_map, "phase_down_score", 0) > 0
         THEN "Go lower"
         ELSE "Great squat form"

\* C7: for Squat, back < 150 yields "Keep your back straight" whatever knee and
\* phase_down_score are; otherwise knee > 90 with phase_down_score > 0 yields
\* "Go lower"; otherwise "Great squat form".  An entry the map lacks reads as
\* get's default (180 for an angle, 0 for the score).
C7_SquatDecisionTable ==
    (call.op = "get_feedback" /\ call.arg.exercise = "Squat") =>
        /\ feedback = SquatTable(call.arg.angles)
        /\ ("back" \in DOMAIN call.arg.angles /\ call.arg.angles.back < Deg(150))
              => feedback = "Keep your back straight"

\* back = 140, knee = 100, phase_down_score = 1: both rules apply and the back rule wins.
C7_Witness ==
    /\ call.op = "get_feedback"
    /\ call.arg.exercise = "Squat"
    /\ Get(call.arg.angles, "back", Deg(180)) = Deg(140)
    /\ Get(call.arg.angles, "knee", Deg(180)) = Deg(100)
    /\ Get(call.arg.angles, "phase_down_score", 0) = 1
    /\ feedback = "Keep your back straight"

\* C4: on every frame, with or without a pose, on which update returns a count for the
\* selected exercise above the count the previous update for that exercise returned,
\* the loop logs exactly one record with that exercise and the new count; on every
\* other frame it logs nothing.
C4_LogOnEveryIncrease ==
    [][(pc = "frame" /\ pc' = "key") =>
          LET e == status'.exercise IN
          IF status'.reps > returned[e]
          THEN frame'.logged = <<[exercise |-> e, reps |-> status'.reps]>>
          ELSE frame'.logged = <<>>]_vars

\* The front knee angle taken on the left leg, and on the right leg.
LeftKneeAngle(l) == calculate_angle(l.left_hip, l.left_knee, l.left_ankle)

RightKneeAngle(l) == calculate_angle(l.right_hip, l.right_knee, l.right_ankle)

\* When the knees are not level, the leg with the lower knee gives front_knee.
LowerKneeIsFront ==
    frame.pose =>
        LET l == frame.landmarks IN
        /\ l.left_knee[2] > l.right_knee[2] => frame.angles.front_knee = LeftKneeAngle(l)
        /\ l.left_knee[2] < l.right_knee[2] => frame.angles.front_knee = RightKneeAngle(l)

\* C6 as stated: with the two knees level, front_knee is the angle at the left knee
\* between the left hip and the left ankle; otherwise the leg with the lower knee is used.
C6_LeftLegWhenLevel ==
    /\ LowerKneeIsFront
    /\ frame.pose =>
          LET l == frame.landmarks IN
          l.left_knee[2] = l.right_knee[2] => frame.angles.front_knee = LeftKneeAngle(l)

\* C6 as amended: with the two knees level, front_knee is the angle at the right knee,
\* between the right hip and the right ankle when the knees are at different pixels and
\* between the left hip and the left ankle when they are at the same pixel; otherwise
\* the leg with the lower knee is used.
C6_RightKneeWhenLevel ==
    /\ LowerKneeIsFront
    /\ frame.pose =>
          LET l == frame.landmarks IN
          l.left_knee[2] = l.right_knee[2] =>
              frame.angles.front_knee =
                  IF l.left_knee = l.right_knee
                  THEN calculate_angle(l.left_hip, l.right_knee, l.left_ankle)
                  ELSE RightKneeAngle(l)

\* Level knees at different pixels whose two legs give different angles.
C6_Witness ==
    /\ frame.pose
    /\ frame.landmarks.left_knee[2] = frame.landmarks.right_knee[2]
    /\ frame.landmarks.left_knee # frame.landmarks.right_knee
    /\ LeftKneeAngle(frame.landmarks) = Deg(180)
    /\ frame.angles.front_knee = RightKneeAngle(frame.landmarks)
    /\ frame.angles.front_knee < Deg(70)

\* C10: on every frame with a pose, the hip and ankle compute_angles uses for front_knee
\* and the knee and toe handed to get_feedback belong to one leg.
C10_OneFrontLeg ==
    frame.pose =>
        LET l == frame.landmarks IN
        \/ /\ front_hip(l) = l.left_hip
           /\ front_ankle(l) = l.left_ankle
           /\ frame.joints.front_knee = l.left_knee
           /\ frame.joints.front_toe = l.left_foot_index
        \/ /\ front_hip(l) = l.right_hip
           /\ front_ankle(l) = l.right_ankle
           /\ frame.joints.front_knee = l.right_knee
           /\ frame.joints.front_toe = l.right_foot_index

====
